---- MODULE Spec2Model ----
(***************************************************************************)
(* MediaCrush, mediacrush/files.py: content-addressed ingestion (upload),  *)
(* the job queue and lock protocol, the processing-status resolver,        *)
(* compression accounting and the deletion cascade.                        *)
(*                                                                         *)
(* Strings the code builds (filenames, store keys) are sequences of        *)
(* tokens: a token is "." or a maximal dot-free run of characters, so      *)
(* that splitting at the last dot, lower-casing, %-formatting and          *)
(* key namespacing are computed, not assumed.                              *)
(***************************************************************************)
EXTENDS Integers, Sequences, FiniteSets, TLC

(***************************************************************************)
(* Bounds of the model.                                                    *)
(***************************************************************************)
\* upload() calls are not started once more bytes than this would be recorded
MaxUsage == 30
\* nor once this many originals are stored, when they would store another one
MaxFiles == 2
\* workers write at most this many renditions in all
MaxRenditions == 1
\* and report at most this many failures in all
MaxFailures == 1

(***************************************************************************)
(* Module constants, files.py:17-64.                                       *)
(***************************************************************************)
VIDEO_EXTENSIONS == {"gif", "ogv", "mp4", "webm"}
AUDIO_EXTENSIONS == {"mp3", "ogg", "oga"}
EXTENSIONS == {"png", "jpg", "jpe", "jpeg", "svg"} \cup VIDEO_EXTENSIONS \cup AUDIO_EXTENSIONS

\* processing_needed: keyed by MIME type; only 'formats' is read by files.py
processing_needed ==
    [t \in {"image/gif", "video/mp4", "video/webm", "video/ogv", "image/jpeg",
            "image/png", "image/svg", "audio/mp3", "audio/ogg"} |->
       CASE t = "image/gif"  -> <<"video/mp4", "video/ogv", "video/webm">>
         [] t = "video/mp4"  -> <<"video/webm", "video/ogv">>
         [] t = "video/webm" -> <<"video/mp4", "video/ogv">>
         [] t = "video/ogv"  -> <<"video/mp4", "video/webm">>
         [] t = "audio/mp3"  -> <<"audio/ogg">>
         [] t = "audio/ogg"  -> <<"audio/oga", "audio/mp3">>
         [] OTHER            -> <<>>]

(***************************************************************************)
(* Python values and string operations.                                    *)
(***************************************************************************)
None == "<None>"

\* str.lower() on one token
lower(t) ==
    CASE t = "GIF" -> "gif"
      [] t = "PNG" -> "png"
      [] t = "JPE" -> "jpe"
      [] t = "EXE" -> "exe"
      [] OTHER     -> t

\* position of the last "." token of s, 0 when there is none
RECURSIVE LastDot(_, _)
LastDot(s, i) ==
    IF i = 0 THEN 0 ELSE IF s[i] = "." THEN i ELSE LastDot(s, i - 1)

\* '.' in filename
HasDot(s) == LastDot(s, Len(s)) > 0

\* extension = lambda f: f.rsplit('.', 1)[1].lower(); the part after the last
\* dot is one token or empty ("" for a name that ends in a dot); without a dot
\* the split has one element and the index raises
extension(s) ==
    LET d == LastDot(s, Len(s))
    IN IF d = 0 THEN "<IndexError>"
       ELSE IF d = Len(s) THEN "" ELSE lower(s[d + 1])

\* fmt % args : the i-th "%s" token of fmt is replaced by args[i]
RECURSIVE Format(_, _)
Format(fmt, args) ==
    IF fmt = <<>> THEN <<>>
    ELSE IF Head(fmt) = "%s"
         THEN <<Head(args)>> \o Format(Tail(fmt), Tail(args))
         ELSE <<Head(fmt)>> \o Format(Tail(fmt), args)

\* database._k: every key is namespaced under the application prefix
_k(key) == <<"mediacrush.">> \o key

\* file_storage(f) = os.path.join(_cfg("storage_folder"), f)
file_storage(f) == <<"storage/">> \o f

\* finite maps (the filesystem, the key-value store, the metadata store)
Put(m, k, v) == [x \in (DOMAIN m) \cup {k} |-> IF x = k THEN v ELSE m[x]]
Drop(m, k) == [x \in (DOMAIN m) \ {k} |-> m[x]]
Empty == [x \in {} |-> 0]

(***************************************************************************)
(* Inputs.                                                                 *)
(***************************************************************************)
\* byte contents of the sources
Contents == {"b1", "b2"}

\* file_length(f): the byte length of the source
file_length(f) == IF f \in {"b1", "b2"} THEN 10 ELSE 0

\* get_hash(f): the md5 digest of the bytes (library code: distinct contents
\* have distinct digests), written here in base64
get_hash(f) == IF f = "b1" THEN "q/8+Zk0aXw9bGh3/cD+e5A==" ELSE "Lm+o/Pq1RsT2x0/vYw8+nQ=="

\* to_id(h): base64 of the digest, its first 12 characters, '/' -> '_', '+' -> '-'
to_id(h) ==
    CASE h = "q/8+Zk0aXw9bGh3/cD+e5A==" -> "q_8-Zk0aXw9b"
      [] h = "Lm+o/Pq1RsT2x0/vYw8+nQ==" -> "Lm-o_Pq1RsT2"

Identifiers == {to_id(get_hash(c)) : c \in Contents}

\* mimetypes.guess_extension(content_type): any extension registered for the
\* type (the library picks one of them), {} when the type is not registered
guess_extension(ct) ==
    CASE ct = "image/gif"  -> {<<".", "gif">>}
      [] ct = "image/png"  -> {<<".", "png">>}
      [] ct = "image/jpeg" -> {<<".", "jpe">>, <<".", "jpg">>, <<".", "jpeg">>}
      [] OTHER             -> {}

\* content_type.split("/")[1]
Subtype(ct) ==
    CASE ct = "image/gif"  -> "gif"
      [] ct = "image/png"  -> "png"
      [] ct = "image/jpeg" -> "jpeg"
      [] ct = "video/ogv"  -> "ogv"
      [] ct = "application/x-msdownload" -> "x-msdownload"
      [] OTHER             -> "octet-stream"

(***************************************************************************)
(* State.                                                                  *)
(***************************************************************************)
VARIABLES
    files,      \* the storage folder: path -> byte size of the file there
    records,    \* MetadataStore: identifier -> File record
    gifqueue,   \* the redis list 'gifqueue', head first
    kv,         \* redis string keys: key -> value
    usage,      \* RateLimiter: bytes recorded for the caller
    debug,      \* current_app.debug
    ul,         \* per upload() call in progress: its position and locals
    pl,         \* per processing_status() call in progress
    dl,         \* per delete_file() call in progress
    wl,         \* per worker: its position and the job it holds
    resp,       \* the last call that ran to its end alone and what it returned,
                \* when no other process has acted since
    outstanding,\* history: identifiers returned by upload whose lock no worker cleared since
    errWrites,  \* history: identifier -> number of failure tokens workers wrote
    polls       \* history of the interleaved processing_status() calls: whether
                \* an identifier was polled since its failure was written, whether
                \* its token was returned, whether a call is the first such poll

shared == <<files, records, gifqueue, kv, usage>>
vars == <<files, records, gifqueue, kv, usage, debug, ul, pl, dl, wl, resp,
          outstanding, errWrites, polls>>

\* the shared stores as one value, so that a handler is a function of it
World == [files |-> files, records |-> records, gifqueue |-> gifqueue,
          kv |-> kv, usage |-> usage]

Commit(w) ==
    /\ files' = w.files
    /\ records' = w.records
    /\ gifqueue' = w.gifqueue
    /\ kv' = w.kv
    /\ usage' = w.usage

(***************************************************************************)
(* The collaborators' operations (redis, os, RateLimiter, MetadataStore).  *)
(***************************************************************************)
r_exists(w, key) == key \in DOMAIN w.kv
r_get(w, key) == IF key \in DOMAIN w.kv THEN w.kv[key] ELSE None
r_set(w, key, v) == [w EXCEPT !.kv = Put(w.kv, key, v)]
r_delete(w, key) == [w EXCEPT !.kv = Drop(w.kv, key)]
r_lpush(w, v) == [w EXCEPT !.gifqueue = <<v>> \o w.gifqueue]
path_exists(w, path) == path \in DOMAIN w.files
getsize(w, path) == w.files[path]
save_file(w, path, f) == [w EXCEPT !.files = Put(w.files, path, file_length(f))]

\* the limit of the RateLimiter, in bytes
RateLimit == 20
rate_limit_update(w, by) == [w EXCEPT !.usage = w.usage + by]
rate_limit_exceeded(w) == w.usage > RateLimit

\* File(hash=identifier) with compression, original and ip set, then save()
File(identifier, compression, original) ==
    [hash |-> identifier, compression |-> compression, original |-> original,
     ip |-> "ip"]
File_save(w, o) == [w EXCEPT !.records = Put(w.records, o.hash, o)]
File_delete(w, o) == [w EXCEPT !.records = Drop(w.records, o.hash)]

(***************************************************************************)
(* upload(f, filename), files.py:156-196.                                  *)
(***************************************************************************)
Result(body, status) == [body |-> body, status |-> status]
NoResult == Result(None, 0)

\* lines 157-166: the filenames the call can go on with
typed_names(filename, content_type) ==
    IF content_type # None /\ content_type # "application/octet-stream"
    THEN IF guess_extension(content_type) # {}
         THEN {filename \o e : e \in guess_extension(content_type)}
         ELSE {filename \o <<".", Subtype(content_type)>>}
    ELSE {filename}

\* the type check without the membership test of line 108
allowed_file_anyext(filename) == HasDot(filename)

\* lines 107-108
allowed_file(filename) == HasDot(filename) /\ extension(filename) \in EXTENSIONS

\* line 176: "%s.%s" % (identifier, extension(filename))
stored_name(identifier, filename) ==
    Format(<<"%s", ".", "%s">>, <<identifier, extension(filename)>>)

\* the key of line 192: _k("%s.lock" % identifier)
lock_key(identifier) == _k(Format(<<"%s", ".lock">>, <<identifier>>))

UIdle == [pc |-> "idle", f |-> None, truthy |-> FALSE, filename |-> <<>>,
          identifier |-> None, path |-> <<>>, result |-> NoResult]

\* the call's locals once line 166 is passed; truthy is bool(f)
upload_enter(f, truthy, name) ==
    [UIdle EXCEPT !.pc = "check", !.f = f, !.truthy = truthy, !.filename = name]

UReturn(l, body, status) == [l EXCEPT !.pc = "done", !.result = Result(body, status)]

\* line 170 moved above the type check of line 168
upload_check_recording(w, l, dbg) ==
    IF l.truthy /\ allowed_file(l.filename)
    THEN [w |-> w, l |-> [l EXCEPT !.pc = IF dbg THEN "exists" ELSE "update"]]
    ELSE [w |-> IF dbg THEN w ELSE rate_limit_update(w, file_length(l.f)),
          l |-> UReturn(l, "no", 415)]

\* line 168 (and 196)
upload_check(w, l, dbg) ==
    IF l.truthy /\ allowed_file(l.filename)
    THEN [w |-> w, l |-> [l EXCEPT !.pc = IF dbg THEN "exists" ELSE "update"]]
    ELSE [w |-> w, l |-> UReturn(l, "no", 415)]

\* line 170 without the call of rate_limit_update
upload_update_skipped(w, l) ==
    [w |-> w, l |-> [l EXCEPT !.pc = "exceeded"]]

\* line 170
upload_update(w, l) ==
    [w |-> rate_limit_update(w, file_length(l.f)), l |-> [l EXCEPT !.pc = "exceeded"]]

\* lines 171-172
upload_exceeded(w, l) ==
    IF rate_limit_exceeded(w)
    THEN [w |-> w, l |-> UReturn(l, "ratelimit", 420)]
    ELSE [w |-> w, l |-> [l EXCEPT !.pc = "exists"]]

\* lines 174-180
upload_exists(w, l) ==
    LET identifier == to_id(get_hash(l.f))
        filename == stored_name(identifier, l.filename)
        path == file_storage(filename)
        l2 == [l EXCEPT !.identifier = identifier, !.filename = filename, !.path = path]
    IN IF path_exists(w, path)
       THEN [w |-> w, l |-> UReturn(l2, identifier, 409)]
       ELSE [w |-> w, l |-> [l2 EXCEPT !.pc = "save"]]

\* lines 182-183
upload_save(w, l) ==
    [w |-> save_file(w, l.path, l.f), l |-> [l EXCEPT !.pc = "record"]]

\* lines 185-189
upload_record(w, l) ==
    [w |-> File_save(w, File(l.identifier, getsize(w, l.path), l.filename)),
     l |-> [l EXCEPT !.pc = "lpush"]]

\* line 191
upload_lpush(w, l) ==
    [w |-> r_lpush(w, l.identifier), l |-> [l EXCEPT !.pc = "lock"]]

\* line 194 without line 192
upload_lock_unset(w, l) ==
    [w |-> w, l |-> UReturn(l, l.identifier, 200)]

\* lines 192-194
upload_lock(w, l) ==
    [w |-> r_set(w, lock_key(l.identifier), "1"), l |-> UReturn(l, l.identifier, 200)]

\* one step of the call at its position
upload_step(w, l, dbg) ==
    CASE l.pc = "check"    -> upload_check(w, l, dbg)
      [] l.pc = "update"   -> upload_update(w, l)
      [] l.pc = "exceeded" -> upload_exceeded(w, l)
      [] l.pc = "exists"   -> upload_exists(w, l)
      [] l.pc = "save"     -> upload_save(w, l)
      [] l.pc = "record"   -> upload_record(w, l)
      [] l.pc = "lpush"    -> upload_lpush(w, l)
      [] l.pc = "lock"     -> upload_lock(w, l)

\* the whole call, run alone
RECURSIVE upload_run(_, _, _)
upload_run(w, l, dbg) ==
    IF l.pc = "done" THEN [w |-> w, l |-> l]
    ELSE LET s == upload_step(w, l, dbg) IN upload_run(s.w, s.l, dbg)

upload(w, f, truthy, name, dbg) == upload_run(w, upload_enter(f, truthy, name), dbg)

(***************************************************************************)
(* processing_status(id), files.py:208-218.                                *)
(***************************************************************************)
\* the key of lines 211 and 212: _k("%s.error" % filename)
error_key(filename) == _k(Format(<<"%s", ".error">>, <<filename>>))

\* line 213 without the namespace
error_delete_key_bare(filename) == Format(<<"%s", ".error">>, <<filename>>)

\* the key of line 213: _k("%s.error") % filename
error_delete_key(filename) == Format(_k(<<"%s", ".error">>), <<filename>>)

PIdle == [pc |-> "idle", id |-> None, failure_type |-> None, result |-> None]

status_enter(id) == [PIdle EXCEPT !.pc = "lock", !.id = id]

PReturn(l, v) == [l EXCEPT !.pc = "done", !.result = v]

\* line 211 reached without the test of line 210
status_lock_untested(w, l) ==
    [w |-> w, l |-> [l EXCEPT !.pc = "error"]]

\* line 210 (and 218)
status_lock(w, l) ==
    IF ~r_exists(w, lock_key(l.id))
    THEN [w |-> w, l |-> [l EXCEPT !.pc = "error"]]
    ELSE [w |-> w, l |-> PReturn(l, "processing")]

\* line 212 reached without the test of line 211
status_error_untested(w, l) ==
    [w |-> w, l |-> [l EXCEPT !.pc = "get"]]

\* line 211 (and 217)
status_error(w, l) ==
    IF r_exists(w, error_key(l.id))
    THEN [w |-> w, l |-> [l EXCEPT !.pc = "get"]]
    ELSE [w |-> w, l |-> PReturn(l, "done")]

\* line 213 reached without the read of line 212
status_get_unread(w, l) ==
    [w |-> w, l |-> [l EXCEPT !.pc = "delete"]]

\* line 212
status_get(w, l) ==
    [w |-> w, l |-> [l EXCEPT !.pc = "delete", !.failure_type = r_get(w, error_key(l.id))]]

\* lines 213-215
status_delete(w, l) ==
    [w |-> r_delete(w, error_delete_key(l.id)), l |-> PReturn(l, l.failure_type)]

status_step(w, l) ==
    CASE l.pc = "lock"   -> status_lock(w, l)
      [] l.pc = "error"  -> status_error(w, l)
      [] l.pc = "get"    -> status_get(w, l)
      [] l.pc = "delete" -> status_delete(w, l)

RECURSIVE status_run(_, _)
status_run(w, l) ==
    IF l.pc = "done" THEN [w |-> w, l |-> l]
    ELSE LET s == status_step(w, l) IN status_run(s.w, s.l)

processing_status(w, id) == status_run(w, status_enter(id))

(***************************************************************************)
(* compression_rate(f), files.py:130-154.  The result is in hundredths     *)
(* (250 is 2.5), so that round(.., 2) is an integer operation.             *)
(***************************************************************************)
Min(a, b) == IF a < b THEN a ELSE b

\* lines 138-143: the minimum over the renditions that exist
RECURSIVE min_converted(_, _, _, _)
min_converted(w, f, formats, minsize) ==
    IF formats = <<>> THEN minsize
    ELSE LET p == file_storage(Format(<<"%s", ".", "%s">>, <<f, Head(formats)>>))
         IN min_converted(w, f, Tail(formats),
                          IF path_exists(w, p) THEN Min(minsize, getsize(w, p))
                          ELSE minsize)

\* lines 151-154: round(1 / (minsize / float(original_size)), 2), half away from zero
rounded_rate(original_size, minsize) ==
    (200 * original_size + minsize) \div (2 * minsize)

\* lines 136-154 without the returns of lines 133 and 134
compression_rate_unguarded(w, f) ==
    LET f_original == w.records[f]
        ext == extension(f_original.original)
        formats == IF ext \in DOMAIN processing_needed THEN processing_needed[ext] ELSE <<>>
        original_size == f_original.compression
        minsize == min_converted(w, f, formats,
                       Min(original_size, getsize(w, file_storage(f_original.original))))
    IN rounded_rate(original_size, minsize)

\* lines 130-154
compression_rate(w, f) ==
    LET f_original == w.records[f]
        ext == extension(f_original.original)
    IN IF ext \notin DOMAIN processing_needed THEN 0
       ELSE IF Len(processing_needed[ext]) = 0 THEN 0
       ELSE LET original_size == f_original.compression
                minsize == min_converted(w, f, processing_needed[ext],
                               Min(original_size, getsize(w, file_storage(f_original.original))))
            IN rounded_rate(original_size, minsize)

(***************************************************************************)
(* delete_file(f) and delete_file_storage(path), files.py:198-206, 220-224.*)
(***************************************************************************)
\* the names bound at module level of files.py (imports, constants, functions)
ModuleNames ==
    {"mimetypes", "base64", "hashlib", "os", "tempfile", "requests", "current_app",
     "_cfg", "r", "_k", "File", "rate_limit_exceeded", "rate_limit_update",
     "secure_ip", "GifProcessor", "VIDEO_EXTENSIONS", "AUDIO_EXTENSIONS",
     "EXTENSIONS", "LOOP_EXTENSIONS", "AUTOPLAY_EXTENSIONS", "processing_needed",
     "URLFile", "allowed_file", "get_hash", "get_mimetype", "media_url",
     "file_storage", "file_length", "compression_rate", "upload", "delete_file",
     "processing_status", "delete_file_storage", "extension", "to_id"}

\* os.unlink(p); a missing file raises OSError, which the caller's except swallows
os_unlink(w, p) == [w EXCEPT !.files = Drop(w.files, p)]

\* lines 220-224: line 222 reads the name f, the parameter is named path; a name
\* bound neither locally nor in the module raises NameError, and the bare
\* except swallows it before os.unlink is reached
delete_file_storage(w, path) ==
    IF "f" \in {"path"} \cup ModuleNames
    THEN os_unlink(w, file_storage(path))
    ELSE w

DIdle == [pc |-> "idle", f |-> File(None, 0, <<>>), todo |-> <<>>]

delete_enter(f) == [DIdle EXCEPT !.pc = "original", !.f = f]

\* lines 199-203
delete_original(w, l) ==
    LET ext == extension(l.f.original)
        formats == IF ext \in DOMAIN processing_needed THEN processing_needed[ext] ELSE <<>>
    IN [w |-> delete_file_storage(w, l.f.original),
        l |-> [l EXCEPT !.pc = IF formats = <<>> THEN "record" ELSE "formats",
                        !.todo = formats]]

\* line 204, one target format
delete_format(w, l) ==
    [w |-> delete_file_storage(w, Format(<<"%s", ".", "%s">>, <<l.f.hash, Head(l.todo)>>)),
     l |-> [l EXCEPT !.pc = IF Tail(l.todo) = <<>> THEN "record" ELSE "formats",
                     !.todo = Tail(l.todo)]]

\* line 206 followed by a delete of the item's lock key
delete_record_unlocking(w, l) ==
    [w |-> r_delete(File_delete(w, l.f), lock_key(l.f.hash)),
     l |-> [l EXCEPT !.pc = "done"]]

\* line 206
delete_record(w, l) ==
    [w |-> File_delete(w, l.f), l |-> [l EXCEPT !.pc = "done"]]

delete_step(w, l) ==
    CASE l.pc = "original" -> delete_original(w, l)
      [] l.pc = "formats"  -> delete_format(w, l)
      [] l.pc = "record"   -> delete_record(w, l)

RECURSIVE delete_run(_, _)
delete_run(w, l) ==
    IF l.pc = "done" THEN [w |-> w, l |-> l]
    ELSE LET s == delete_step(w, l) IN delete_run(s.w, s.l)

delete_file(w, f) == delete_run(w, delete_enter(f))

(***************************************************************************)
(* The transcoding worker (outside files.py): pops an identifier, writes   *)
(* renditions of the item, then clears the lock, with or without an error  *)
(* marker.                                                                 *)
(***************************************************************************)
\* the content type of a stored extension
ContentTypeOf(ext) ==
    CASE ext \in {"jpg", "jpe", "jpeg"} -> "image/jpeg"
      [] ext = "png"  -> "image/png"
      [] ext = "svg"  -> "image/svg"
      [] ext = "gif"  -> "image/gif"
      [] ext = "mp4"  -> "video/mp4"
      [] ext = "webm" -> "video/webm"
      [] ext = "ogv"  -> "video/ogv"
      [] ext = "mp3"  -> "audio/mp3"
      [] ext = "ogg"  -> "audio/ogg"
      [] OTHER        -> None

\* the extension of a target format
FormatExt(t) ==
    CASE t = "video/mp4"  -> "mp4"
      [] t = "video/ogv"  -> "ogv"
      [] t = "video/webm" -> "webm"
      [] t = "audio/ogg"  -> "ogg"
      [] t = "audio/oga"  -> "oga"
      [] t = "audio/mp3"  -> "mp3"
      [] OTHER            -> None

Range(s) == {s[i] : i \in DOMAIN s}

\* the extensions of the renditions a worker produces for an original
TargetExts(ext) ==
    IF ContentTypeOf(ext) \in DOMAIN processing_needed
    THEN {FormatExt(t) : t \in Range(processing_needed[ContentTypeOf(ext)])}
    ELSE {}

\* the identifier a stored file belongs to: '<storage>/<identifier>.<ext>'
owner(path) == path[2]

\* the path of the rendition of an identifier in a format
rendition_path(id, ext) == file_storage(<<id, ".", ext>>)

\* byte sizes of the renditions workers write
RenditionSizes == {4, 12}
\* failure tokens workers report
Tokens == {"transcode-failed"}

WIdle == [pc |-> "idle", job |-> None]

RECURSIVE Sum(_, _)
Sum(f, S) == IF S = {} THEN 0 ELSE LET i == CHOOSE i \in S : TRUE IN f[i] + Sum(f, S \ {i})



r_rpop(w) == [w EXCEPT !.gifqueue = SubSeq(w.gifqueue, 1, Len(w.gifqueue) - 1)]

(***************************************************************************)
(* Processes and inputs.                                                   *)
(***************************************************************************)
Uploaders == {"u1", "u2"}
Pollers == {"p1", "p2"}
Deleters == {"d1"}
Workers == {"w1"}

\* the suggested filenames and declared content types of the calls
Suggested ==
    {<<<<"a", ".", "gif">>, None>>,
     <<<<"a", ".", "GIF">>, "application/octet-stream">>,
     <<<<"a", ".", "exe">>, None>>,
     <<<<"a">>, None>>,
     <<<<"a", ".">>, None>>,
     <<<<"a">>, "image/jpeg">>,
     <<<<"a", ".", "gif">>, "application/x-msdownload">>}

\* the filenames upload() can hold at line 168
Names == UNION {typed_names(n[1], n[2]) : n \in Suggested}

\* the paths upload() can write; the other stored files are renditions
UploadPaths ==
    {file_storage(stored_name(to_id(get_hash(f)), n)) : f \in Contents, n \in Names}
Originals == (DOMAIN files) \cap UploadPaths
Renditions == (DOMAIN files) \ UploadPaths

\* the filenames of the calls that run interleaved
RaceNames == {<<"a", ".", "gif">>, <<"a", ".", "jpe">>}

NoCall == [op |-> "none", f |-> None, truthy |-> FALSE, name |-> <<>>, id |-> None,
           body |-> None, status |-> 0, rate |-> 0]

Init ==
    /\ files = Empty
    /\ records = Empty
    /\ gifqueue = <<>>
    /\ kv = Empty
    /\ usage = 0
    /\ debug \in BOOLEAN
    /\ ul = [u \in Uploaders |-> UIdle]
    /\ pl = [p \in Pollers |-> PIdle]
    /\ dl = [d \in Deleters |-> DIdle]
    /\ wl = [x \in Workers |-> WIdle]
    /\ resp = NoCall
    /\ outstanding = {}
    /\ errWrites = [i \in Identifiers |-> 0]
    /\ polls = [polled |-> [i \in Identifiers |-> FALSE],
                taken |-> [i \in Identifiers |-> FALSE],
                first |-> [p \in Pollers |-> FALSE]]

history == <<outstanding, errWrites, polls>>

Failures == Sum(errWrites, Identifiers)

\* history kept by a step of upload(): the identifier is outstanding once returned
UploadHistory(l) ==
    /\ outstanding' = IF l.pc = "done" /\ l.result.status = 200
                      THEN outstanding \cup {l.identifier} ELSE outstanding
    /\ UNCHANGED <<errWrites, polls>>

\* calls are started while the model's bounds allow what they would store
WithinBounds(w) ==
    /\ w.usage <= MaxUsage
    /\ w.files = files \/ Cardinality(Originals) < MaxFiles

(***************************************************************************)
(* Calls that run to their end alone.                                      *)
(***************************************************************************)
IngestFrom(sources) ==
    \E c \in sources :
       LET s == upload(World, c.f, c.truthy, c.name, debug)
       IN /\ WithinBounds(s.w)
          /\ Commit(s.w)
          /\ resp' = [NoCall EXCEPT !.op = "upload", !.f = c.f, !.truthy = c.truthy,
                                    !.name = c.name, !.body = s.l.result.body,
                                    !.status = s.l.result.status]
          /\ UploadHistory(s.l)
          /\ UNCHANGED <<debug, ul, pl, dl, wl>>

Source(f, name, truthy) == [f |-> f, name |-> name, truthy |-> truthy]

\* any source under any filename; bool(f) is False for a source without a name
Ingest == IngestFrom({Source(f, n, t) : f \in Contents, n \in Names, t \in BOOLEAN})

\* one content under two filenames that pass the type check
IngestAllowed ==
    IngestFrom({Source("b1", <<"a", ".", "gif">>, TRUE),
                Source("b1", <<"a", ".", "jpe">>, TRUE)})

\* one source under one filename
IngestOne == IngestFrom({Source("b1", <<"a", ".", "gif">>, TRUE)})

StatusOf ==
    \E id \in Identifiers :
       LET s == processing_status(World, id)
       IN /\ Commit(s.w)
          /\ resp' = [NoCall EXCEPT !.op = "status", !.id = id, !.body = s.l.result]
          /\ UNCHANGED <<debug, ul, pl, dl, wl, history>>

CompressionRatio ==
    \E id \in DOMAIN records :
       /\ resp' = [NoCall EXCEPT !.op = "rate", !.id = id, !.rate = compression_rate(World, id)]
       /\ UNCHANGED <<shared, debug, ul, pl, dl, wl, history>>

\* the caller loads the item (File.from_hash) and passes it to delete_file
Delete ==
    \E id \in DOMAIN records :
       LET s == delete_file(World, records[id])
       IN /\ Commit(s.w)
          /\ resp' = [NoCall EXCEPT !.op = "delete", !.id = id,
                                    !.name = records[id].original]
          /\ UNCHANGED <<debug, ul, pl, dl, wl, history>>

(***************************************************************************)
(* Interleaved execution: every store operation of a call is a step.       *)
(***************************************************************************)
UStep(u, l) ==
    LET s == upload_step(World, l, debug)
    IN /\ WithinBounds(s.w)
       /\ Commit(s.w)
       /\ ul' = [ul EXCEPT ![u] = s.l]
       /\ UploadHistory(s.l)
       /\ resp' = NoCall
       /\ UNCHANGED <<debug, pl, dl, wl>>

UploadCall(u) ==
    /\ ul[u].pc = "idle"
    /\ \E f \in Contents, name \in RaceNames : UStep(u, upload_enter(f, TRUE, name))

UploadUpdate(u) == ul[u].pc = "update" /\ UStep(u, ul[u])
UploadExceeded(u) == ul[u].pc = "exceeded" /\ UStep(u, ul[u])
UploadExists(u) == ul[u].pc = "exists" /\ UStep(u, ul[u])
UploadSave(u) == ul[u].pc = "save" /\ UStep(u, ul[u])
UploadRecord(u) == ul[u].pc = "record" /\ UStep(u, ul[u])
UploadLpush(u) == ul[u].pc = "lpush" /\ UStep(u, ul[u])
UploadLock(u) == ul[u].pc = "lock" /\ UStep(u, ul[u])

\* a worker wrote a failure for the identifier and has finished its job
Reported(id) == errWrites[id] > 0 /\ \A x \in Workers : wl[x].job # id

\* history kept by a step of processing_status(): l is the call before the
\* step (at "lock" the call starts), m the call after it
PollHistory(p, l, m) ==
    polls' = [polled |-> [polls.polled EXCEPT ![l.id] = @ \/ (l.pc = "lock" /\ Reported(l.id))],
              taken |-> [polls.taken EXCEPT ![l.id] = @ \/ (m.pc = "done" /\ m.result \in Tokens)],
              first |-> [polls.first EXCEPT ![p] = IF l.pc = "lock"
                                                   THEN Reported(l.id) /\ ~polls.polled[l.id]
                                                   ELSE @]]

PStep(p, l) ==
    LET s == status_step(World, l)
    IN /\ Commit(s.w)
       /\ pl' = [pl EXCEPT ![p] = s.l]
       /\ PollHistory(p, l, s.l)
       /\ resp' = NoCall
       /\ UNCHANGED <<debug, ul, dl, wl, outstanding, errWrites>>

StatusCall(p) ==
    /\ pl[p].pc \in {"idle", "done"}
    /\ \E id \in Identifiers : PStep(p, status_enter(id))

StatusError(p) == pl[p].pc = "error" /\ PStep(p, pl[p])
StatusGet(p) == pl[p].pc = "get" /\ PStep(p, pl[p])
StatusDelete(p) == pl[p].pc = "delete" /\ PStep(p, pl[p])

DStep(d, l) ==
    LET s == delete_step(World, l)
    IN /\ Commit(s.w)
       /\ dl' = [dl EXCEPT ![d] = s.l]
       /\ resp' = NoCall
       /\ UNCHANGED <<debug, ul, pl, wl, history>>

DeleteCall(d) ==
    /\ dl[d].pc \in {"idle", "done"}
    /\ \E id \in DOMAIN records : DStep(d, delete_enter(records[id]))

\* lines 203-206, the next store operation of a call past line 201
DeleteNext(d) == dl[d].pc \in {"formats", "record"} /\ DStep(d, dl[d])

(***************************************************************************)
(* Worker steps.                                                           *)
(***************************************************************************)
WorkerPop(x) ==
    /\ wl[x].pc = "idle"
    /\ gifqueue # <<>>
    /\ wl' = [wl EXCEPT ![x] = [pc |-> "work", job |-> gifqueue[Len(gifqueue)]]]
    /\ Commit(r_rpop(World))
    /\ resp' = NoCall
    /\ UNCHANGED <<debug, ul, pl, dl, history>>

WorkerRender(x) ==
    /\ wl[x].pc = "work"
    /\ wl[x].job \in DOMAIN records
    /\ \E e \in TargetExts(extension(records[wl[x].job].original)), n \in RenditionSizes :
          /\ rendition_path(wl[x].job, e) \notin DOMAIN files
          /\ Cardinality(Renditions) < MaxRenditions
          /\ files' = Put(files, rendition_path(wl[x].job, e), n)
    /\ resp' = NoCall
    /\ UNCHANGED <<records, gifqueue, kv, usage, debug, ul, pl, dl, wl, history>>

\* the worker removes the lock: the job succeeded (back to idle), or it failed
\* and the error marker is written next, or was written before
WorkerClear(x) ==
    /\ wl[x].pc \in {"work", "clear"}
    /\ Commit(r_delete(World, lock_key(wl[x].job)))
    /\ \E next \in IF wl[x].pc = "work" /\ Failures < MaxFailures
                    THEN {"idle", "seterr"} ELSE {"idle"} :
          wl' = [wl EXCEPT ![x] = IF next = "idle" THEN WIdle ELSE [@ EXCEPT !.pc = next]]
    /\ outstanding' = outstanding \ {wl[x].job}
    /\ resp' = NoCall
    /\ UNCHANGED <<debug, ul, pl, dl, errWrites, polls>>

\* the worker writes the error marker, before or after removing the lock
WorkerSetError(x) ==
    /\ wl[x].pc \in {"work", "seterr"}
    /\ Failures < MaxFailures
    /\ \E t \in Tokens : Commit(r_set(World, error_key(wl[x].job), t))
    /\ wl' = [wl EXCEPT ![x] = IF wl[x].pc = "work" THEN [@ EXCEPT !.pc = "clear"] ELSE WIdle]
    /\ errWrites' = [errWrites EXCEPT ![wl[x].job] = @ + 1]
    /\ polls' = [polls EXCEPT !.polled[wl[x].job] = FALSE, !.taken[wl[x].job] = FALSE]
    /\ resp' = NoCall
    /\ UNCHANGED <<debug, ul, pl, dl, outstanding>>

Worker == \E x \in Workers : WorkerPop(x) \/ WorkerClear(x) \/ WorkerSetError(x)

Render == \E x \in Workers : WorkerRender(x)

(***************************************************************************)
(* Specifications.                                                         *)
(***************************************************************************)
\* every call of the interface runs to its end alone; workers step in between
Next == IngestAllowed \/ StatusOf \/ CompressionRatio \/ Delete \/ Worker \/ Render

Spec == Init /\ [][Next]_vars

\* upload() calls with every kind of source and filename, each alone
SpecType == Init /\ [][Ingest]_vars

\* concurrent upload() calls, a worker, and status polls that run alone
UploadSteps == \E u \in Uploaders :
    \/ UploadCall(u) \/ UploadUpdate(u) \/ UploadExceeded(u) \/ UploadExists(u)
    \/ UploadSave(u) \/ UploadRecord(u) \/ UploadLpush(u) \/ UploadLock(u)

NextUpload == UploadSteps \/ StatusOf \/ Worker

SpecUpload == Init /\ [][NextUpload]_vars

\* concurrent processing_status() calls, a worker, and uploads that run alone
StatusSteps == \E p \in Pollers :
    StatusCall(p) \/ StatusError(p) \/ StatusGet(p) \/ StatusDelete(p)

NextStatus == IngestOne \/ StatusSteps \/ Worker

SpecStatus == Init /\ [][NextStatus]_vars

\* one poller whose processing_status() calls interleave with a worker
SinglePoller == CHOOSE p \in Pollers : TRUE

PollSteps ==
    \/ StatusCall(SinglePoller) \/ StatusError(SinglePoller)
    \/ StatusGet(SinglePoller) \/ StatusDelete(SinglePoller)

NextPoll == IngestOne \/ PollSteps \/ Worker

SpecPoll == Init /\ [][NextPoll]_vars

\* a delete_file() call that can stop at any step, a worker, uploads that run alone
DeleteSteps == \E d \in Deleters : DeleteCall(d) \/ DeleteNext(d)

NextDelete == IngestOne \/ DeleteSteps \/ Worker \/ Render

SpecDelete == Init /\ [][NextDelete]_vars

(***************************************************************************)
(* Properties.                                                             *)
(***************************************************************************)
\* C1: two upload() calls one after the other with identical bytes, both past
\* the type and rate-limit checks, return the same identifier; the second
\* returns it with status 409 and leaves the job queue, the lock marker and
\* the metadata records as they were.
C1_SecondIsDuplicate ==
    [][(/\ resp.op = "upload" /\ resp.status \in {200, 409}
        /\ resp'.op = "upload" /\ resp'.status \notin {415, 420}
        /\ resp'.f = resp.f)
       => (/\ resp'.body = resp.body
           /\ resp'.status = 409
           /\ UNCHANGED <<gifqueue, kv, records>>)]_vars

\* C2: an identifier that is in the job queue has its lock marker present, in
\* every state, also between the store operations of an upload() call.
C2_QueuedIsLocked ==
    \A i \in DOMAIN gifqueue : r_exists(World, lock_key(gifqueue[i]))

\* C3: from the return of an upload() call with an identifier until a worker
\* clears that identifier's lock marker, every processing_status() call for it
\* returns "processing".
C3_ProcessingUntilCleared ==
    (resp.op = "status" /\ resp.id \in outstanding) => resp.body = "processing"

C3_Witness ==
    /\ resp.op = "status"
    /\ resp.id \in outstanding
    /\ resp.body = "processing"
    /\ \E x \in Workers : wl[x].pc = "work" /\ wl[x].job = resp.id

\* C4: with the lock marker of an identifier absent and its error marker set to
\* a token, and no other process acting, the first processing_status() call
\* returns the token and deletes the key it read, and the call right after it
\* returns "done".
C4_TokenThenDone ==
    [][/\ \A id \in Identifiers :
            (/\ ~r_exists(World, lock_key(id))
             /\ r_exists(World, error_key(id))
             /\ resp'.op = "status" /\ resp'.id = id)
            => (/\ resp'.body = r_get(World, error_key(id))
                /\ resp'.body \in Tokens
                /\ error_key(id) \notin DOMAIN kv')
       /\ (/\ resp.op = "status" /\ resp.body \in Tokens
           /\ resp'.op = "status" /\ resp'.id = resp.id)
          => resp'.body = "done"]_vars

C4_Witness ==
    /\ resp.op = "status"
    /\ resp.body = "done"
    /\ errWrites[resp.id] > 0
    /\ DOMAIN kv = {}

\* C5: a failure token a worker wrote once for an identifier is returned by
\* exactly one processing_status() call, whatever the interleaving of the
\* calls: no more calls hold the token as their result than tokens were written.
C5_TokenReturnedOnce ==
    \A id \in Identifiers :
       Cardinality({p \in Pollers : /\ pl[p].pc = "done" /\ pl[p].id = id
                                    /\ pl[p].result \in Tokens}) <= errWrites[id]

\* C6: of two concurrent upload() calls with identical bytes and the same
\* extension, exactly one stores the blob and pushes the job (200) and the
\* other returns 409.
C6_OneStoresOtherDuplicate ==
    \A u \in Uploaders, v \in Uploaders :
       (/\ u # v
        /\ ul[u].pc = "done" /\ ul[v].pc = "done"
        /\ ul[u].result.status \in {200, 409} /\ ul[v].result.status \in {200, 409}
        /\ ul[u].path = ul[v].path)
       => {ul[u].result.status, ul[v].result.status} = {200, 409}

\* C7: after delete_file() the original blob and the rendition blob of every
\* target format of the original's content type are gone, and so is the
\* metadata record.
C7_DeleteRemovesBlobs ==
    resp.op = "delete"
    => (/\ file_storage(resp.name) \notin DOMAIN files
        /\ \A e \in TargetExts(extension(resp.name)) :
              rendition_path(resp.id, e) \notin DOMAIN files
        /\ resp.id \notin DOMAIN records)

\* the sizes compression accounting is to take the minimum of: the stored
\* compression field, the original on disk, the target renditions that exist
AccountedSizes(id) ==
    LET o == records[id]
    IN {o.compression} \cup {files[file_storage(o.original)]}
       \cup {files[rendition_path(id, e)] :
               e \in {x \in TargetExts(extension(o.original)) :
                        rendition_path(id, x) \in DOMAIN files}}

MinOf(S) == CHOOSE m \in S : \A n \in S : m <= n

\* C8: for an item whose content type has a target format, compression_rate()
\* returns round(originalSize / minSize, 2) (here in hundredths).
C8_RatioOfMinimum ==
    (/\ resp.op = "rate"
     /\ TargetExts(extension(records[resp.id].original)) # {})
    => resp.rate = rounded_rate(records[resp.id].compression, MinOf(AccountedSizes(resp.id)))

\* C9: an upload() call whose filename has no extension or an extension that is
\* not allowed returns ("no", 415) and changes neither the stored files, the
\* queue, the markers, the metadata records nor the recorded usage.
C9_UnsupportedTouchesNothing ==
    [][(/\ resp'.op = "upload"
        /\ ~HasDot(resp'.name) \/ extension(resp'.name) \notin EXTENSIONS)
       => (/\ resp'.body = "no" /\ resp'.status = 415
           /\ UNCHANGED <<files, records, gifqueue, kv, usage>>)]_vars

C9_Witness ==
    /\ resp.op = "upload" /\ resp.status = 415 /\ resp.truthy
    /\ HasDot(resp.name)
    /\ gifqueue # <<>> /\ usage > 0

\* the allowed set as the specification lists it
ListedExtensions ==
    {"png", "jpg", "jpeg", "svg", "gif", "ogv", "mp4", "webm", "mp3", "ogg", "oga"}

\* C10, as stated: upload() rejects with ("no", 415) every filename whose
\* extension is not in the listed set, and lets pass only filenames whose
\* extension is in it.
C10_ListedSetOnly ==
    resp.op = "upload"
    => (/\ (~HasDot(resp.name) \/ extension(resp.name) \notin ListedExtensions)
              => (resp.body = "no" /\ resp.status = 415)
        /\ resp.status # 415
              => (HasDot(resp.name) /\ extension(resp.name) \in ListedExtensions))

\* C10, amended: the same with 'jpe' added to the set.
C10_ListedSetAndJpe ==
    resp.op = "upload"
    => (/\ (~HasDot(resp.name) \/ extension(resp.name) \notin ListedExtensions \cup {"jpe"})
              => (resp.body = "no" /\ resp.status = 415)
        /\ resp.status # 415
              => (HasDot(resp.name) /\ extension(resp.name) \in ListedExtensions \cup {"jpe"}))

C10_Witness ==
    /\ resp.op = "upload"
    /\ extension(resp.name) = "jpe"
    /\ resp.status = 200

\* C11: outside debug mode an upload() call that passes the type check records
\* the source's byte length before the limit is checked; when the limit is then
\* exceeded it returns ("ratelimit", 420) with the usage recorded and the
\* stored files, the queue, the markers and the records unchanged.  In debug
\* mode the usage is not recorded and no call returns 420.
C11_RecordedBeforeChecked ==
    [][(/\ resp'.op = "upload"
        /\ resp'.truthy /\ allowed_file(resp'.name))
       => IF debug
          THEN usage' = usage /\ resp'.status # 420
          ELSE /\ usage' = usage + file_length(resp'.f)
               /\ rate_limit_exceeded([World EXCEPT !.usage = usage'])
                     <=> (resp'.body = "ratelimit" /\ resp'.status = 420)
               /\ resp'.status = 420 => UNCHANGED <<files, gifqueue, kv, records>>]_vars

C11_Witness ==
    /\ resp.op = "upload" /\ resp.status = 420 /\ resp.body = "ratelimit"
    /\ ~debug
    /\ usage > RateLimit
    /\ Cardinality(DOMAIN files) = 2

\* C12: with the lock marker of an identifier cleared and no error marker set
\* for it, processing_status() returns "done" and leaves the shared stores as
\* they were, and a call right after a call that returned "done" returns
\* "done" again and changes nothing either.
C12_DoneIsIdempotent ==
    [][/\ \A id \in Identifiers :
            (/\ ~r_exists(World, lock_key(id))
             /\ ~r_exists(World, error_key(id))
             /\ resp'.op = "status" /\ resp'.id = id)
            => (resp'.body = "done" /\ UNCHANGED shared)
       /\ (/\ resp.op = "status" /\ resp.body = "done"
           /\ resp'.op = "status" /\ resp'.id = resp.id)
          => (resp'.body = "done" /\ UNCHANGED shared)]_vars

\* a worker popped the job of a stored item and cleared its lock without a
\* failure, and the poll after that returned "done"
C12_Witness ==
    /\ resp.op = "status" /\ resp.body = "done"
    /\ resp.id \in DOMAIN records
    /\ resp.id \notin outstanding
    /\ errWrites[resp.id] = 0
    /\ gifqueue = <<>>
    /\ \A x \in Workers : wl[x].pc = "idle"

\* C13: every processing_status() call returns "processing", "done" or a
\* failure token, never an empty or null value, whatever the interleaving with
\* workers and with other processing_status() calls.
C13_StatusIsNeverNull ==
    \A p \in Pollers :
       pl[p].pc = "done" => pl[p].result \in {"processing", "done"} \cup Tokens

\* C14: for an item whose content type has no target format, or whose
\* extension is not a key of the processing table, compression_rate() returns
\* exactly 0, whatever files are stored.
C14_ZeroWithoutTargets ==
    (/\ resp.op = "rate"
     /\ \/ TargetExts(extension(records[resp.id].original)) = {}
        \/ extension(records[resp.id].original) \notin DOMAIN processing_needed)
    => resp.rate = 0

\* the ratio of a jpeg item (no target format) was asked for while the
\* rendition of another upload of the identifier is stored
C14_Witness ==
    /\ resp.op = "rate" /\ resp.rate = 0
    /\ extension(records[resp.id].original) = "jpe"
    /\ TargetExts("jpe") = {}
    /\ Renditions # {}

\* C15: once every upload() call has returned and the workers have finished
\* every job of an identifier (it is not in the queue and no worker holds it),
\* the identifier's lock marker is absent, whatever the interleaving of the
\* upload's push and lock with the worker's pop and clear.
C15_FinishedIsUnlocked ==
    \A id \in Identifiers :
       (/\ \A u \in Uploaders : ul[u].pc \in {"idle", "done"}
        /\ id \notin Range(gifqueue)
        /\ \A x \in Workers : wl[x].job # id)
       => ~r_exists(World, lock_key(id))

\* C16: in every state during or after a delete_file() call, also when the
\* call stops at any step, no stored file (original or rendition) belongs to
\* an identifier whose metadata record is gone.
C16_NoFileWithoutRecord ==
    \A path \in DOMAIN files : owner(path) \in DOMAIN records

\* C17: once the record of an identifier exists, no upload(),
\* processing_status() or compression_rate() call, with any allowed filename
\* and the same or other bytes, saves it again or changes a field of it.
C17_RecordIsWriteOnce ==
    [][resp'.op \in {"upload", "status", "rate"}
       => \A id \in DOMAIN records :
             id \in DOMAIN records' /\ records'[id] = records[id]]_vars

C19_ReadsChangeOnlyOwnError ==
    [][resp'.op \in {"status", "rate"}
       => /\ UNCHANGED <<files, records, gifqueue>>
          /\ \/ UNCHANGED kv
             \/ /\ resp'.op = "status"
                /\ kv' = Drop(kv, error_key(resp'.id))
                /\ ~r_exists(World, lock_key(resp'.id))
                /\ resp'.body \in Tokens]_vars

\* a poll returned the token of a stored item and deleted its error marker
C19_Witness ==
    /\ resp.op = "status" /\ resp.body \in Tokens
    /\ ~r_exists(World, error_key(resp.id))
    /\ resp.id \in DOMAIN records
    /\ files # Empty

\* C20: delete_file() leaves the job queue, the lock markers and the error
\* markers as they are; after the delete of an item whose lock is present the
\* next processing_status() call for it still returns "processing".
C20_DeleteKeepsQueueAndMarkers ==
    [][/\ resp'.op = "delete" => UNCHANGED <<gifqueue, kv>>
       /\ (/\ resp.op = "delete" /\ r_exists(World, lock_key(resp.id))
           /\ resp'.op = "status" /\ resp'.id = resp.id)
          => resp'.body = "processing"]_vars

\* a worker popped the identifier of an item deleted while its job was
\* outstanding: the job has no record, its lock is still present
C20_Witness ==
    \E x \in Workers :
       /\ wl[x].pc = "work"
       /\ wl[x].job \notin DOMAIN records
       /\ r_exists(World, lock_key(wl[x].job))

====
